---- MODULE Spec2Model ----
(***************************************************************************)
(* A model of cobrapy: the analysis queue of                               *)
(* src/src/cobrapy/queue_manager.py (the AnalysisQueue worker pool with    *)
(* its bounded queue.Queue, the Future handles it hands out, the           *)
(* TokenBucket limiter and the helpers of the queue), the segment planner  *)
(* and preprocess_video of src/cobrapy/video_client.py, and the chunked    *)
(* transcription of src/src/cobrapy/cobra_utils.py, with _run_preprocess   *)
(* of src/src/cobrapy/api/app.py.                                          *)
(*                                                                         *)
(* Spec / FairSpec             the AnalysisQueue, its callers, its workers *)
(* BucketSpec / FairBucketSpec the TokenBucket, its acquiring threads and  *)
(*                             the consume_tokens scope                    *)
(* BudgetSpec                  the TokenBucket from its construction on,   *)
(*                             with the tokens it has granted              *)
(* HelperSpec                  estimate_tokens and clamp_max_workers       *)
(* ClampSpec                   clamp_max_workers on any accepted config    *)
(* PlannerSpec                 _generate_segments on a fresh manifest      *)
(* PreprocessSpec              preprocess_video and its executor threads   *)
(* TranscribeSpec              parallelize_audio, parallelize_transcription*)
(*                             and their pools                             *)
(* RunPreprocessSpec           _run_preprocess of the API                  *)
(* SliceSpec                   parse_transcript over the planned segments  *)
(***************************************************************************)
EXTENDS Integers, Sequences, FiniteSets, TLC

\* ------------------------------------------------------------------ bounds
MaxWorkers == 2
MaxPending == 2
MaxJobs == 3
MaxCapacity == 2
MaxThreads == 2
\* Clock ticks in one refill period of the token bucket.
RefillTicks == 2
\* The largest value of a field of AnalysisQueueConfig, and of tokens_per_minute.
MaxConfig == 2
MaxTokensPerMinute == 6
\* The most segments of a manifest and the longest analysis lens.
MaxSegments == 2
MaxLens == 4
\* The longest video the planner is given, in seconds, and the largest whole
\* frame rate.
MaxPlanDuration == 25
MaxFps == 2
\* The longest video preprocess_video is run on, in seconds, and the most calls
\* of it.
MaxDuration == 2
MaxRuns == 2
\* The most audio chunks, the length of a chunk's transcript timeline and the
\* distance between the starts of two chunks.
MaxChunks == 3
MaxChunkLen == 1
ChunkStep == 2

\* The token budget is followed for MaxElapsed clock ticks after the
\* construction of the bucket.
MaxElapsed == 3

\* The most words of the transcript that is sliced over the segments.
MaxWords == 2

\* ---------------------------------------------------------------- the state
VARIABLES
    max_concurrent_jobs,  \* AnalysisQueueConfig.max_concurrent_jobs
    max_pending_jobs,     \* AnalysisQueueConfig.max_pending_jobs
    queue,                \* AnalysisQueue._queue: the items of the queue.Queue, head first
    shutdown,             \* AnalysisQueue._shutdown
    wpc,                  \* per worker thread: where it is in _worker
    wjob,                 \* per worker thread: the job it holds (0: none)
    wsent,                \* per worker thread: sentinels it has dequeued
    spc,                  \* per submit call (one per job): where it is in submit
    fut,                  \* per job: the state of its Future
    result,               \* per job: what was stored in its Future
    workCalls,            \* per job: how many times job.work() was invoked
    resolves,             \* per job: how many set_result/set_exception calls succeeded
    workDone,             \* per job: its work has ended (returned or raised)
    pred,                 \* per job: the jobs whose submit had returned a handle when its submit was called
    before,               \* per job: the jobs already accepted when its put succeeded
    sdpc,                 \* the thread calling shutdown: where it is in shutdown
    sdwait,               \* the wait argument of the shutdown call in progress
    sdi,                  \* the loop index of the shutdown call in progress
    sentinelsPut,         \* sentinels enqueued so far
    sdJoined,             \* a shutdown(wait=True) call has returned after joining
    capacity,             \* TokenBucket.capacity
    tokens,               \* TokenBucket._tokens, in units of 1/RefillTicks token
    sinceRefill,          \* time.monotonic() - TokenBucket._last_refill, in ticks
    tpc,                  \* per acquiring thread: where it is in acquire
    treq,                 \* per acquiring thread: the tokens argument of its call
    timer,                \* per acquiring thread: ticks left of its Condition.wait timeout
    debited,              \* per acquiring thread: tokens its current call has debited
    scope,                \* per thread: inside ("in") or outside ("out") a consume_tokens scope
    raised,               \* per thread: an exception left the consume_tokens scope it last left, no call since
    granted,              \* tokens debited by the acquire calls made up to MaxElapsed ticks after construction
    elapsed,              \* ticks since the construction of the bucket, up to MaxElapsed + 1
    max_preprocess_workers,     \* AnalysisQueueConfig.max_preprocess_workers
    default_preprocess_workers, \* AnalysisQueueConfig.default_preprocess_workers
    base_tokens_per_request,    \* AnalysisQueueConfig.base_tokens_per_request
    tokens_per_segment,         \* AnalysisQueueConfig.tokens_per_segment
    lens_chars_per_token,       \* AnalysisQueueConfig.lens_chars_per_token
    max_lens_token_bonus,       \* AnalysisQueueConfig.max_lens_token_bonus
    call,                 \* the last call of a helper of AnalysisQueue, with its result
    duration,             \* manifest.source_video.duration, in hundredths of a second
    processing_params,    \* manifest.processing_params
    segment_metadata,     \* manifest.segment_metadata
    segments,             \* manifest.segments
    dirs,                 \* the output directories that exist, by the names _prepare_outputs_directory gives them
    ppc,                  \* the thread calling preprocess_video: where it is
    pi,                   \* preprocess_video: the index of its submit loop
    task,                 \* per segment index: the state of the future submitted for it
    res,                  \* per segment index: what its _preprocess_segment returned
    runs,                 \* calls of preprocess_video so far
    atCall,               \* manifest.segments when the current preprocess_video call was made
    writers,              \* per segment: the threads that wrote a field of its record in the current call
    process_args_list,    \* parallelize_transcription: the start offset of each audio chunk
    cstate,               \* per chunk: the state of its process_chunk call in the pool
    raw,                  \* per chunk: what generate_transcript returned for it
    transcripts,          \* per chunk: what process_chunk returned for it
    combined,             \* parallelize_transcription: combined_transcript
    mpc,                  \* the chunked audio pipeline: where it is
    mi,                   \* parallelize_transcription: the next transcript to merge
    estate,               \* per chunk: the state of its extract_audio_chunk call in the pool
    audio_transcription,  \* manifest.audio_transcription
    request,              \* _run_preprocess: the BaseAnalysisRequest
    client,               \* _run_preprocess: the manifest of the client and its preprocess_video calls
    rpc,                  \* _run_preprocess: not called, returned or raised
    transcription_object, \* parse_transcript: the words of the transcript of the whole video
    transcription         \* per segment: segment.transcription, the words parse_transcript joined

config == << max_concurrent_jobs, max_pending_jobs >>
workers == << wpc, wjob, wsent >>
jobs == << fut, result, workCalls, resolves, workDone >>
calls == << spc, pred, before >>
closing == << shutdown, sdpc, sdwait, sdi, sentinelsPut, sdJoined >>
qvars == << config, queue, workers, jobs, calls, closing >>
bvars == << capacity, tokens, sinceRefill, tpc, treq, timer, debited, scope, raised,
           granted, elapsed >>
limits == << max_preprocess_workers, default_preprocess_workers,
            base_tokens_per_request, tokens_per_segment, lens_chars_per_token,
            max_lens_token_bonus >>
hvars == << limits, call >>
mvars == << duration, processing_params, segment_metadata, segments >>
ovars == << dirs, ppc, pi, task, res, runs, atCall, writers >>
pvars == << mvars, ovars >>
avars == << estate, audio_transcription >>
tvars == << process_args_list, cstate, raw, transcripts, combined, mpc, mi, avars >>
rvars == << request, client, rpc >>
svars == << transcription_object, transcription >>
xvars == << hvars, pvars, tvars, rvars, svars >>
vars == << qvars, bvars, xvars >>

\* ------------------------------------------------------------- AnalysisQueue
Jobs == 1..MaxJobs
WorkerIds == 1..(MaxWorkers + 1)

\* The sentinel shutdown enqueues (None in the source).
None == 0

\* What job j's work returns: each job has a result of its own.
WorkValue(j) == 100 + j

\* How a call of job.work() can end: it returns, it raises an Exception, or it
\* raises a BaseException that is no Exception (SystemExit, ...).
Outcomes == {"ret", "exc", "base"}

\* A pool one thread too large.
Workers_OneTooMany == 1..(max_concurrent_jobs + 1)

\* __init__ starts one worker thread per range(max_concurrent_jobs).
Workers == 1..max_concurrent_jobs

\* A queue with one slot too many.
QueueSize_OneMore == IF max_pending_jobs <= 0 THEN 0 ELSE max_pending_jobs + 1

\* queue_size = 0 if max_pending_jobs <= 0 else max_pending_jobs
QueueSize == IF max_pending_jobs <= 0 THEN 0 ELSE max_pending_jobs

\* Full only past maxsize.
QueueIsFull_OffByOne == QueueSize > 0 /\ Len(queue) > QueueSize

\* queue.Queue: a maxsize of 0 is unbounded; otherwise full at maxsize items.
QueueIsFull == QueueSize > 0 /\ Len(queue) >= QueueSize

\* A LIFO queue: put at the head.
Enqueue_Lifo(q, item) == << item >> \o q

\* queue.Queue is FIFO: put appends at the tail, get takes the head.
Enqueue(q, item) == Append(q, item)

\* submit without its shutdown check.
ShutdownSeen_Never == FALSE

\* submit's first statement: has the queue been shut down?
ShutdownSeen == shutdown

\* The queue as __init__ leaves it: the worker threads started, nothing queued.
QConstructed(mcj, mpj) ==
    /\ max_concurrent_jobs = mcj
    /\ max_pending_jobs = mpj
    /\ queue = << >>
    /\ shutdown = FALSE
    /\ wpc = [w \in WorkerIds |-> IF w \in Workers THEN "get" ELSE "absent"]
    /\ wjob = [w \in WorkerIds |-> 0]
    /\ wsent = [w \in WorkerIds |-> 0]
    /\ spc = [j \in Jobs |-> "new"]
    /\ fut = [j \in Jobs |-> "none"]
    /\ result = [j \in Jobs |-> 0]
    /\ workCalls = [j \in Jobs |-> 0]
    /\ resolves = [j \in Jobs |-> 0]
    /\ workDone = [j \in Jobs |-> FALSE]
    /\ pred = [j \in Jobs |-> {}]
    /\ before = [j \in Jobs |-> {}]
    /\ sdpc = "idle"
    /\ sdwait = FALSE
    /\ sdi = 0
    /\ sentinelsPut = 0
    /\ sdJoined = FALSE

QInit == \E mcj \in 1..MaxWorkers, mpj \in 0..MaxPending : QConstructed(mcj, mpj)

\* submit, up to the creation of the job: a shut down queue raises RuntimeError.
\* Calls are numbered in the order they are made; they may overlap.
SubmitCall(j) ==
    /\ spc[j] = "new"
    /\ \A k \in 1..(j - 1) : spc[k] # "new"
    /\ pred' = [pred EXCEPT ![j] = {k \in Jobs : spc[k] = "accepted"}]
    /\ IF ShutdownSeen
         THEN /\ spc' = [spc EXCEPT ![j] = "shutdown"]
              /\ fut' = fut
         ELSE /\ spc' = [spc EXCEPT ![j] = "put"]
              /\ fut' = [fut EXCEPT ![j] = "pending"]
    /\ UNCHANGED << config, queue, workers, result, workCalls, resolves, workDone,
                    before, closing, bvars, xvars >>

\* submit, the non-blocking put: Full becomes QueueFullError, else the Future
\* is returned.
SubmitPut(j) ==
    /\ spc[j] = "put"
    /\ IF QueueIsFull
         THEN /\ spc' = [spc EXCEPT ![j] = "full"]
              /\ UNCHANGED << queue, before >>
         ELSE /\ spc' = [spc EXCEPT ![j] = "accepted"]
              /\ queue' = Enqueue(queue, j)
              /\ before' = [before EXCEPT ![j] = {k \in Jobs : spc[k] = "accepted"}]
    /\ UNCHANGED << config, workers, jobs, pred, closing, bvars, xvars >>

\* Future.cancel() by the holder of the handle submit returned: a Future that
\* is neither running nor finished becomes cancelled.  The worker never marks
\* the Future running, so it stays pending until its outcome is recorded.
Cancel(j) ==
    /\ spc[j] = "accepted"
    /\ fut[j] = "pending"
    /\ fut' = [fut EXCEPT ![j] = "cancelled"]
    /\ UNCHANGED << config, queue, workers, result, workCalls, resolves, workDone,
                    calls, closing, bvars, xvars >>

\* _worker: job = self._queue.get(); a None ends the loop.
WorkerGet(w) ==
    /\ w \in Workers
    /\ wpc[w] = "get"
    /\ queue # << >>
    /\ queue' = Tail(queue)
    /\ IF Head(queue) = None
         THEN /\ wpc' = [wpc EXCEPT ![w] = "exited"]
              /\ wsent' = [wsent EXCEPT ![w] = @ + 1]
              /\ UNCHANGED wjob
         ELSE /\ wpc' = [wpc EXCEPT ![w] = "got"]
              /\ wjob' = [wjob EXCEPT ![w] = Head(queue)]
              /\ UNCHANGED wsent
    /\ UNCHANGED << config, jobs, calls, closing, bvars, xvars >>

\* _worker: job.work() is invoked.
WorkerStart(w) ==
    /\ w \in Workers
    /\ wpc[w] = "got"
    /\ wpc' = [wpc EXCEPT ![w] = "run"]
    /\ workCalls' = [workCalls EXCEPT ![wjob[w]] = @ + 1]
    /\ UNCHANGED << config, queue, wjob, wsent, fut, result, resolves, workDone,
                    calls, closing, bvars, xvars >>

\* The job whose Future the worker resolves: the job it dequeued.
RecordTarget(w) == wjob[w]

\* _worker: job.work() ends with outcome o and the except / else / finally
\* clauses run.  "ret": set_result; "exc": set_exception; either raises
\* InvalidStateError on a Future that is no longer pending, and that error
\* leaves the loop.  "base" is not caught by `except Exception` and leaves the
\* loop as well.
WorkerFinish(w, o) ==
    /\ w \in Workers
    /\ wpc[w] = "run"
    /\ workDone' = [workDone EXCEPT ![wjob[w]] = TRUE]
    /\ LET j == RecordTarget(w)
           ok == o \in {"ret", "exc"} /\ fut[j] = "pending"
       IN  /\ wpc' = [wpc EXCEPT ![w] = IF ok THEN "get" ELSE "dead"]
           /\ fut' = IF ok
                       THEN [fut EXCEPT ![j] = IF o = "ret" THEN "completed" ELSE "failed"]
                       ELSE fut
           /\ result' = IF ok /\ o = "ret"
                          THEN [result EXCEPT ![j] = WorkValue(wjob[w])]
                          ELSE result
           /\ resolves' = IF ok THEN [resolves EXCEPT ![j] = @ + 1] ELSE resolves
    /\ wjob' = [wjob EXCEPT ![w] = 0]
    /\ UNCHANGED << config, queue, wsent, workCalls, calls, closing, bvars, xvars >>

\* A worker thread that is no longer alive: Thread.join() on it returns.
NotAlive(w) == wpc[w] \in {"exited", "dead"}

\* shutdown, up to the flag: a repeated call returns at once.
ShutdownCall(wait) ==
    /\ sdpc = "idle"
    /\ IF shutdown
         THEN UNCHANGED << shutdown, sdpc, sdwait, sdi >>
         ELSE /\ shutdown' = TRUE
              /\ sdpc' = "put"
              /\ sdwait' = wait
              /\ sdi' = 0
    /\ UNCHANGED << config, queue, workers, jobs, calls, sentinelsPut, sdJoined, bvars, xvars >>

\* shutdown: for _ in self._workers: self._queue.put(None), a blocking put.
ShutdownPut ==
    /\ sdpc = "put"
    /\ ~QueueIsFull
    /\ queue' = Enqueue(queue, None)
    /\ sentinelsPut' = sentinelsPut + 1
    /\ IF sdi + 1 < Cardinality(Workers)
         THEN /\ sdi' = sdi + 1
              /\ UNCHANGED sdpc
         ELSE /\ sdi' = 0
              /\ sdpc' = IF sdwait THEN "join" ELSE "idle"
    /\ UNCHANGED << config, workers, jobs, calls, shutdown, sdwait, sdJoined, bvars, xvars >>

\* shutdown: for worker in self._workers: worker.join().
ShutdownJoin ==
    /\ sdpc = "join"
    /\ NotAlive(sdi + 1)
    /\ IF sdi + 1 < Cardinality(Workers)
         THEN /\ sdi' = sdi + 1
              /\ UNCHANGED << sdpc, sdJoined >>
         ELSE /\ sdi' = 0
              /\ sdpc' = "idle"
              /\ sdJoined' = TRUE
    /\ UNCHANGED << config, queue, workers, jobs, calls, shutdown, sdwait,
                    sentinelsPut, bvars, xvars >>

WorkerStep(w) == WorkerGet(w) \/ WorkerStart(w) \/ \E o \in Outcomes : WorkerFinish(w, o)

\* --------------------------------------------------------------- TokenBucket
Threads == 1..MaxThreads
Min(a, b) == IF a <= b THEN a ELSE b
Max(a, b) == IF a >= b THEN a ELSE b
CeilDiv(a, b) == (a + b - 1) \div b

\* The 0.05 s floor of the wait timeout: less than a tick, so one tick.
MinSleep == 1

\* n tokens in the unit of the tokens variable.
Scaled(n) == n * RefillTicks

\* A refill without the cap.
Refilled_NoCap == IF sinceRefill <= 0 THEN tokens ELSE tokens + sinceRefill * capacity

\* _refill_locked: _tokens after the refill.  refill_rate is capacity /
\* _refill_period, that is `capacity` units of the tokens variable per tick.
Refilled ==
    IF sinceRefill <= 0 THEN tokens
    ELSE Min(Scaled(capacity), tokens + sinceRefill * capacity)

\* acquire: sleep_time = max(deficit / refill_rate, 0.05), in ticks.
SleepTicks(deficit) == Max(CeilDiv(deficit, capacity), MinSleep)

\* TokenBucket.__init__: a full bucket, refilled now.
BConstructed(c) ==
    /\ capacity = c
    /\ tokens = Scaled(c)
    /\ sinceRefill = 0
    /\ tpc = [t \in Threads |-> "idle"]
    /\ treq = [t \in Threads |-> 0]
    /\ timer = [t \in Threads |-> 0]
    /\ debited = [t \in Threads |-> 0]
    /\ scope = [t \in Threads |-> "out"]
    /\ raised = [t \in Threads |-> FALSE]
    /\ granted = 0
    /\ elapsed = 0

BInit == \E c \in 1..MaxCapacity : BConstructed(c)

\* A bucket that no thread has called since its construction, more than
\* MaxElapsed ticks ago: full, and its budget no longer followed.
BIdle(c) ==
    /\ capacity = c
    /\ tokens = Scaled(c)
    /\ sinceRefill = RefillTicks
    /\ tpc = [t \in Threads |-> "idle"]
    /\ treq = [t \in Threads |-> 0]
    /\ timer = [t \in Threads |-> 0]
    /\ debited = [t \in Threads |-> 0]
    /\ scope = [t \in Threads |-> "out"]
    /\ raised = [t \in Threads |-> FALSE]
    /\ granted = 0
    /\ elapsed = MaxElapsed + 1

\* acquire(n) is called: n <= 0 returns at once.
AcquireCall(t, n) ==
    /\ scope[t] = "out"
    /\ tpc[t] \in {"idle", "returned"}
    /\ treq' = [treq EXCEPT ![t] = n]
    /\ debited' = [debited EXCEPT ![t] = 0]
    /\ tpc' = [tpc EXCEPT ![t] = IF n <= 0 THEN "returned" ELSE "loop"]
    /\ raised' = [raised EXCEPT ![t] = FALSE]
    /\ UNCHANGED << capacity, tokens, sinceRefill, timer, scope, granted, elapsed, qvars, xvars >>

\* _TokenReservation.__exit__: what it gives back to the bucket ("nothing to
\* release") and what it returns (False: the exception is not suppressed).
Released_Refund(t) == Scaled(debited[t])

Released(t) == 0

ExitSuppresses == FALSE

\* `with queue.consume_tokens(n):` is entered: __enter__ calls acquire(n).
ReservationEnter(t, n) ==
    /\ scope[t] = "out"
    /\ tpc[t] \in {"idle", "returned"}
    /\ scope' = [scope EXCEPT ![t] = "in"]
    /\ raised' = [raised EXCEPT ![t] = FALSE]
    /\ treq' = [treq EXCEPT ![t] = n]
    /\ debited' = [debited EXCEPT ![t] = 0]
    /\ tpc' = [tpc EXCEPT ![t] = IF n <= 0 THEN "returned" ELSE "loop"]
    /\ UNCHANGED << capacity, tokens, sinceRefill, timer, granted, elapsed, qvars, xvars >>

\* The body of the with statement ends with outcome o and __exit__ runs.
ReservationExit(t, o) ==
    /\ scope[t] = "in"
    /\ tpc[t] = "returned"
    /\ tokens' = tokens + Released(t)
    /\ raised' = [raised EXCEPT ![t] = (o # "ret") /\ ~ExitSuppresses]
    /\ scope' = [scope EXCEPT ![t] = "out"]
    /\ tpc' = [tpc EXCEPT ![t] = "idle"]
    /\ UNCHANGED << capacity, sinceRefill, treq, timer, debited, granted, elapsed, qvars, xvars >>

\* A refill that leaves _last_refill where it was.
SinceRefillAfter_Kept == sinceRefill

\* _refill_locked: self._last_refill = now.
SinceRefillAfter == 0

\* A debit taken twice.
AfterDebit_Twice(t) == Refilled - 2 * Scaled(treq[t])

\* acquire: self._tokens -= tokens, after the refill.
AfterDebit(t) == Refilled - Scaled(treq[t])

\* acquire: one turn of the loop, under the condition's lock: refill, then
\* debit and return, or wait for the deficit to refill.
AcquireLoop(t) ==
    /\ tpc[t] = "loop"
    /\ sinceRefill' = SinceRefillAfter
    /\ IF Scaled(treq[t]) <= Refilled
         THEN /\ tokens' = AfterDebit(t)
              /\ debited' = [debited EXCEPT ![t] = treq[t]]
              /\ granted' = IF elapsed <= MaxElapsed THEN granted + treq[t] ELSE granted
              /\ tpc' = [tpc EXCEPT ![t] = "returned"]
              /\ UNCHANGED timer
         ELSE /\ tokens' = Refilled
              /\ timer' = [timer EXCEPT ![t] = SleepTicks(Scaled(treq[t]) - Refilled)]
              /\ tpc' = [tpc EXCEPT ![t] = "wait"]
              /\ UNCHANGED << debited, granted >>
    /\ UNCHANGED << capacity, treq, scope, raised, elapsed, qvars, xvars >>

\* acquire: Condition.wait(timeout) returns when the timeout has passed (no
\* thread ever notifies) and the loop goes round.
AcquireWake(t) ==
    /\ tpc[t] = "wait"
    /\ timer[t] = 0
    /\ tpc' = [tpc EXCEPT ![t] = "loop"]
    /\ UNCHANGED << capacity, tokens, sinceRefill, treq, timer, debited, scope, raised, granted, elapsed, qvars, xvars >>

\* time.monotonic() advances by one tick.  A refill after RefillTicks or more
\* fills the bucket, so the clock reading saturates there.  The time since
\* construction is followed up to MaxElapsed ticks; MaxElapsed + 1 is "later",
\* and the grants made later are not added to granted.
Tick ==
    /\ sinceRefill' = Min(sinceRefill + 1, RefillTicks)
    /\ timer' = [t \in Threads |-> Max(timer[t] - 1, 0)]
    /\ elapsed' = Min(elapsed + 1, MaxElapsed + 1)
    /\ UNCHANGED << capacity, tokens, tpc, treq, debited, scope, raised, granted, qvars, xvars >>

\* ------------------------------------------------- AnalysisQueue: helpers
\* An Optional value: None is the empty tuple, a value v is << v >>.
Nothing == << >>
Some(v) == << v >>

\* A string of n characters.
Str(n) == [i \in 1..n |-> "x"]

\* The manifests estimate_tokens is given: a segments list and the
\* num_segments of its segment_metadata.
Manifests ==
    [segments : {Str(n) : n \in 0..MaxSegments},
     num_segments : {Nothing} \cup {Some(n) : n \in 0..MaxSegments}]
Lenses == {Nothing} \cup {Some(Str(n)) : n \in 0..MaxLens}
Requests == {Nothing} \cup {Some(n) : n \in (0 - 1)..(MaxConfig + 2)}

NoCall ==
    [op |-> "none", manifest |-> [segments |-> << >>, num_segments |-> Nothing],
     lens |-> Nothing, requested |-> Nothing, ret |-> 0]

\* clamp_max_workers without the clamp.
clamp_max_workers_Unclamped(requested) ==
    IF requested = Nothing \/ requested[1] <= 0
      THEN default_preprocess_workers
      ELSE requested[1]

clamp_max_workers(requested) ==
    IF requested = Nothing \/ requested[1] <= 0
      THEN default_preprocess_workers
      ELSE Min(requested[1], max_preprocess_workers)

\* estimate_tokens: len(segments), or segment_metadata.num_segments "or 0"
\* when the list is empty.
segment_count(manifest) ==
    IF Len(manifest.segments) # 0 THEN Len(manifest.segments)
    ELSE IF manifest.num_segments = Nothing THEN 0
    ELSE manifest.num_segments[1]

\* estimate_tokens: approx_tokens.
approx_tokens(analysis_lens) ==
    Max(Len(analysis_lens[1]) \div Max(lens_chars_per_token, 1), 0)

\* The lens bonus without its cap.
lens_tokens_Uncapped(analysis_lens) ==
    IF analysis_lens # Nothing /\ Len(analysis_lens[1]) > 0
      THEN approx_tokens(analysis_lens)
      ELSE 0

\* estimate_tokens: what `if analysis_lens:` adds (None and "" add nothing).
lens_tokens(analysis_lens) ==
    IF analysis_lens # Nothing /\ Len(analysis_lens[1]) > 0
      THEN Min(approx_tokens(analysis_lens), max_lens_token_bonus)
      ELSE 0

estimate_tokens(manifest, analysis_lens) ==
    Min(base_tokens_per_request + segment_count(manifest) * tokens_per_segment
            + lens_tokens(analysis_lens),
        capacity)

\* The configuration the other specifications run with.
HConstructed ==
    /\ max_preprocess_workers = 1
    /\ default_preprocess_workers = 1
    /\ base_tokens_per_request = 1
    /\ tokens_per_segment = 1
    /\ lens_chars_per_token = 1
    /\ max_lens_token_bonus = 0
    /\ call = NoCall

\* AnalysisQueueConfig: every field is at least the minimum _env_int gives it
\* (1, and 0 for max_lens_token_bonus).
HInit ==
    /\ max_preprocess_workers \in 1..(MaxConfig + 1)
    /\ default_preprocess_workers \in 1..MaxConfig
    /\ base_tokens_per_request \in 1..MaxConfig
    /\ tokens_per_segment \in 1..MaxConfig
    /\ lens_chars_per_token \in 1..MaxConfig
    /\ max_lens_token_bonus \in 0..MaxConfig
    /\ call = NoCall

\* AnalysisQueueConfig built directly, as AnalysisQueue.__init__ accepts it:
\* only max_concurrent_jobs (and the bucket's capacity) is checked, so the two
\* preprocess worker counts are any integers.
AcceptedConfigInit ==
    /\ max_preprocess_workers \in (0 - 1)..(MaxConfig + 1)
    /\ default_preprocess_workers \in (0 - 1)..(MaxConfig + 1)
    /\ base_tokens_per_request = 1
    /\ tokens_per_segment = 1
    /\ lens_chars_per_token = 1
    /\ max_lens_token_bonus = 0
    /\ call = NoCall

\* The helpers read the configuration only, so a behaviour is one call.
EstimateTokens(manifest, analysis_lens) ==
    /\ call.op = "none"
    /\ call' = [op |-> "estimate_tokens", manifest |-> manifest,
                lens |-> analysis_lens, requested |-> Nothing,
                ret |-> estimate_tokens(manifest, analysis_lens)]
    /\ UNCHANGED << limits, pvars, tvars, qvars, bvars, rvars, svars >>

ClampMaxWorkers(requested) ==
    /\ call.op = "none"
    /\ call' = [op |-> "clamp_max_workers", manifest |-> NoCall.manifest,
                lens |-> Nothing, requested |-> requested,
                ret |-> clamp_max_workers(requested)]
    /\ UNCHANGED << limits, pvars, tvars, qvars, bvars, rvars, svars >>

\* ------------------------------------------------ VideoClient: the planner
\* Times are whole hundredths of a second (what round(x, 2) keeps).
Second == 100

\* Frame rates, as << numerator, denominator >> frames per second.
Fps == {<< 1, 3 >>} \cup {<< n, 1 >> : n \in 1..MaxFps}

\* Video durations of up to max seconds, in steps of half a second.
Durations(max) == {(k * Second) \div 2 : k \in 2..(2 * max)}

\* Segment lengths: whole seconds (segment_length: int).
Lengths(max) == {k * Second : k \in 1..max}

\* math.floor(video_duration).
Floor(d) == (d \div Second) * Second

\* round(x, 2) of x = num / den hundredths: to the nearest, a tie to the even one.
Round2(num, den) ==
    LET q == num \div den
        r == num % den
    IN  IF 2 * r < den THEN q
        ELSE IF 2 * r > den THEN q + 1
        ELSE IF q % 2 = 0 THEN q ELSE q + 1

effective_duration(video_duration, trim_to_nearest_second) ==
    IF trim_to_nearest_second THEN Floor(video_duration) ELSE video_duration

\* A planner that always rounds the number of segments up.
num_segments_AlwaysCeil(eff, segment_length, allow_partial_segments) ==
    CeilDiv(eff, segment_length)

num_segments(eff, segment_length, allow_partial_segments) ==
    IF allow_partial_segments
      THEN CeilDiv(eff, segment_length)
      ELSE eff \div segment_length

\* A segment end that is not cut at the effective duration.
end_time_Uncut(i, segment_length, eff) == (i + 1) * segment_length

\* Segment i (from 0) of the loop of _generate_segments.
start_time(i, segment_length) == i * segment_length
end_time(i, segment_length, eff) == Min((i + 1) * segment_length, eff)

\* math.ceil(segment_duration * analysis_fps).
number_of_frames_in_segment(segment_duration, fps) ==
    CeilDiv(segment_duration * fps[1], Second * fps[2])

\* np.linspace(start, stop, num), each value rounded to 2 decimals: num evenly
\* spaced values from start to stop, both included (endpoint=True); start
\* alone when num is 1.
segment_frames_times(start, stop, num) ==
    [k \in 1..num |->
        IF num = 1 THEN start
        ELSE Round2(start * (num - 1) + (k - 1) * (stop - start), num - 1)]

NewSegment(i, params, eff) ==
    LET s == start_time(i, params.segment_length)
        e == end_time(i, params.segment_length, eff)
        n == number_of_frames_in_segment(e - s, params.fps)
    IN  [start_time |-> s, end_time |-> e, segment_duration |-> e - s,
         number_of_frames |-> n,
         segment_frame_time_intervals |-> segment_frames_times(s, e, n),
         processed |-> FALSE]

\* _generate_segments: the segments it appends to manifest.segments.
Planned(video_duration, params) ==
    LET eff == effective_duration(video_duration, params.trim_to_nearest_second)
        n == num_segments(eff, params.segment_length, params.allow_partial_segments)
    IN  [i \in 1..n |-> NewSegment(i - 1, params, eff)]

PlannedMetadata(video_duration, params) ==
    LET eff == effective_duration(video_duration, params.trim_to_nearest_second)
    IN  [effective_duration |-> eff,
         num_segments |-> num_segments(eff, params.segment_length,
                                       params.allow_partial_segments)]

Params(L, F, trim, partial) ==
    [segment_length |-> L, fps |-> F, trim_to_nearest_second |-> trim,
     allow_partial_segments |-> partial]

SegmentIds == 1..(MaxDuration * MaxRuns)

\* A manifest of a video of duration d that has not been preprocessed, and no
\* preprocess_video call under way.
PConstructed(d, params) ==
    /\ duration = d
    /\ processing_params = params
    /\ segment_metadata = [effective_duration |-> 0, num_segments |-> 0]
    /\ segments = << >>
    /\ dirs = {}
    /\ ppc = "idle"
    /\ pi = 0
    /\ task = [i \in SegmentIds |-> "none"]
    /\ res = [i \in SegmentIds |-> FALSE]
    /\ runs = 0
    /\ atCall = << >>
    /\ writers = [i \in SegmentIds |-> {}]

\* A manifest with the processing parameters preprocess_video accepts:
\* fps > 0 and 0 < segment_length <= duration.
PlannerInit ==
    \E d \in Durations(MaxPlanDuration) : \E L \in Lengths(MaxPlanDuration) :
    \E F \in Fps : \E trim \in BOOLEAN : \E partial \in BOOLEAN :
        /\ L <= d
        /\ PConstructed(d, Params(L, F, trim, partial))

\* _generate_segments, on a manifest without segments.
GenerateSegments ==
    /\ ppc = "idle"
    /\ runs = 0
    /\ segment_metadata' = PlannedMetadata(duration, processing_params)
    /\ segments' = segments \o Planned(duration, processing_params)
    /\ runs' = 1
    /\ UNCHANGED << duration, processing_params, dirs, ppc, pi, task, res, atCall,
                    writers, hvars, tvars, qvars, bvars, rvars, svars >>

\* ---------------------------------------------- VideoClient.preprocess_video
\* _prepare_outputs_directory with output_directory=None: the directory is
\* named after the frame rate and the segment length.
DirName(L, F) == << L, F >>

\* preprocess_video up to the end of _generate_segments, all in the calling
\* thread: the checks of fps and segment_length, the processing parameters,
\* the output directory (FileExistsError unless it is new or overwritten),
\* then the planning.
PreprocessCall(L, F, trim, partial, overwrite) ==
    /\ ppc \in {"idle", "returned", "raised"}
    /\ runs < MaxRuns
    /\ runs' = runs + 1
    /\ atCall' = segments
    /\ task' = [i \in SegmentIds |-> "none"]
    /\ res' = [i \in SegmentIds |-> FALSE]
    /\ pi' = 0
    /\ writers' = [i \in SegmentIds |-> {}]
    /\ IF F[1] <= 0 \/ L <= 0 \/ L > duration
         THEN /\ ppc' = "raised"
              /\ UNCHANGED << processing_params, segment_metadata, segments, dirs >>
         ELSE /\ processing_params' = Params(L, F, trim, partial)
              /\ IF DirName(L, F) \in dirs /\ ~overwrite
                   THEN /\ ppc' = "raised"
                        /\ UNCHANGED << segment_metadata, segments, dirs >>
                   ELSE /\ dirs' = dirs \cup {DirName(L, F)}
                        /\ segment_metadata' =
                               PlannedMetadata(duration, Params(L, F, trim, partial))
                        /\ segments' = segments
                               \o Planned(duration, Params(L, F, trim, partial))
                        /\ ppc' = "audio"
    /\ UNCHANGED << duration, hvars, tvars, qvars, bvars, rvars, svars >>

\* preprocess_video: the audio is extracted and transcribed, or that raises.
ExtractAudio(ok) ==
    /\ ppc = "audio"
    /\ ppc' = IF ok THEN "submit" ELSE "raised"
    /\ pi' = IF ok THEN 1 ELSE pi
    /\ UNCHANGED << mvars, dirs, task, res, runs, atCall, writers, hvars, tvars, qvars, bvars, rvars, svars >>

\* preprocess_video: one turn of the submit loop; a processed segment is
\* skipped.  After the last segment the as_completed loop begins.
SubmitSegment ==
    /\ ppc = "submit"
    /\ task' = IF segments[pi].processed THEN task
               ELSE [task EXCEPT ![pi] = "submitted"]
    /\ pi' = pi + 1
    /\ ppc' = IF pi = Len(segments) THEN "collect" ELSE ppc
    /\ UNCHANGED << mvars, dirs, res, runs, atCall, writers, hvars, tvars, qvars, bvars, rvars, svars >>

\* A thread of the executor starts _preprocess_segment for segment i.
TaskStart(i) ==
    /\ task[i] = "submitted"
    /\ task' = [task EXCEPT ![i] = "running"]
    /\ UNCHANGED << mvars, dirs, ppc, pi, res, runs, atCall, writers, hvars, tvars, qvars, bvars, rvars, svars >>

\* _preprocess_segment, in its thread of the executor, on the Segment object
\* that manifest.segments holds: segment.segment_frames_file_path.append(...)
\* for each frame, then segment.transcription = ...
SegmentWrite(i) ==
    /\ task[i] = "running"
    /\ writers' = [writers EXCEPT ![i] = @ \cup {"worker"}]
    /\ UNCHANGED << mvars, dirs, ppc, pi, task, res, runs, atCall, hvars, tvars, qvars, bvars, rvars, svars >>

\* _preprocess_segment returns (index, True), after its writes, or
\* (index, False) from its except Exception clause, wherever the exception
\* came.
TaskFinish(i, ok) ==
    /\ task[i] = "running"
    /\ ok => "worker" \in writers[i]
    /\ task' = [task EXCEPT ![i] = "done"]
    /\ res' = [res EXCEPT ![i] = ok]
    /\ UNCHANGED << mvars, dirs, ppc, pi, runs, atCall, writers, hvars, tvars, qvars, bvars, rvars, svars >>

\* A write-back at the position in the completion order.
WriteBackIndex_ByCompletion(i) ==
    Cardinality({k \in SegmentIds : task[k] = "collected"}) + 1

\* as_completed: the index the result of segment i is written to.
WriteBackIndex(i) == i

\* preprocess_video: as_completed yields the finished future of segment i and
\* its result is written to the manifest.
Collect(i) ==
    /\ ppc = "collect"
    /\ task[i] = "done"
    /\ segments' = [segments EXCEPT ![WriteBackIndex(i)].processed = res[i]]
    /\ writers' = [writers EXCEPT ![WriteBackIndex(i)] = @ \cup {"caller"}]
    /\ task' = [task EXCEPT ![i] = "collected"]
    /\ UNCHANGED << duration, processing_params, segment_metadata, dirs, ppc, pi,
                    res, runs, atCall, hvars, tvars, qvars, bvars, rvars, svars >>

\* preprocess_video: every future has been read; the manifest is written and
\* the call returns.
PreprocessReturn ==
    /\ ppc = "collect"
    /\ \A i \in SegmentIds : task[i] \in {"none", "collected"}
    /\ ppc' = "returned"
    /\ UNCHANGED << mvars, dirs, pi, task, res, runs, atCall, writers, hvars, tvars, qvars, bvars, rvars, svars >>

PreprocessInit ==
    \E d \in Durations(MaxDuration) :
        PConstructed(d, Params(Second, << 1, 1 >>, FALSE, TRUE))

\* ------------------------------------------------- chunked transcription
\* The size of the pool of parallelize_transcription.
TranscriptionWorkers == 2

\* The largest max_workers of the pool of parallelize_audio.
ExtractWorkers == 2

Chunks == 1..MaxChunks
ChunkIds == 1..Len(process_args_list)
SpokenWords == {"a", "b"}

\* A TranscriptionResult.  Its text is the tuple of the display texts that
\* " ".join puts together; duration is an Optional.
EmptyTranscript == [text |-> << >>, duration |-> Nothing, words |-> << >>, segments |-> << >>]

\* generate_transcript on a chunk in which the word w is recognised from s to
\* e and the last recognised phrase ends at d.
OneWord(w, s, e, d) ==
    [text |-> << w >>, duration |-> Some(d),
     words |-> << [word |-> w, start |-> s, end |-> e] >>,
     segments |-> << [text |-> w, start |-> s, end |-> e] >>]

\* What generate_transcript can return for a chunk: nothing recognised (no
\* duration), or a word, with times relative to the start of the chunk.
RawTranscripts ==
    {EmptyTranscript} \cup
    {OneWord(x[1], x[2], x[3], x[4]) :
        x \in {y \in SpokenWords \X (0..MaxChunkLen) \X (0..MaxChunkLen) \X (0..MaxChunkLen) :
                  y[2] <= y[3] /\ y[3] <= y[4]}}

\* A shift that leaves the time where it is.
Shift_None(t, offset) == t

\* process_chunk: t += start_time.
Shift(t, offset) == t + offset

process_chunk(transcript, offset) ==
    [text |-> transcript.text,
     duration |-> IF transcript.duration # Nothing
                    THEN Some(Shift(transcript.duration[1], offset))
                    ELSE Nothing,
     words |-> [i \in 1..Len(transcript.words) |->
                  [transcript.words[i] EXCEPT
                     !.start = Shift(@, offset), !.end = Shift(@, offset)]],
     segments |-> [i \in 1..Len(transcript.segments) |->
                  [transcript.segments[i] EXCEPT
                     !.start = Shift(@, offset), !.end = Shift(@, offset)]]]

\* A merge that adds the durations up.
MergedDuration_Sum(a, b) == a + b

\* TranscriptionResult.extend: max(self.duration, other.duration).
MergedDuration(a, b) == Max(a, b)

\* TranscriptionResult.extend.
extend(self, other) ==
    [text |-> IF other.text # << >> THEN self.text \o other.text ELSE self.text,
     words |-> self.words \o other.words,
     segments |-> self.segments \o other.segments,
     duration |-> IF other.duration # Nothing
                    THEN IF self.duration = Nothing THEN other.duration
                         ELSE Some(MergedDuration(self.duration[1], other.duration[1]))
                    ELSE self.duration]

\* No parallelize_transcription call made, on the n chunks of an audio file.
TConstructed(n) ==
    /\ process_args_list = [c \in 1..n |-> (c - 1) * ChunkStep]
    /\ cstate = [c \in Chunks |-> "none"]
    /\ raw = [c \in Chunks |-> EmptyTranscript]
    /\ transcripts = [c \in Chunks |-> EmptyTranscript]
    /\ combined = EmptyTranscript
    /\ mpc = "idle"
    /\ mi = 0
    /\ estate = [c \in Chunks |-> "none"]
    /\ audio_transcription = Nothing

TInit == \E n \in 1..MaxChunks : TConstructed(n)

\* A list(executor.map(...)) that leaves out the calls that raised.
MapCompletes_SkipFailed(state) == \A c \in ChunkIds : state[c] \in {"done", "failed"}

\* list(executor.map(...)) has a result for every call: none of them raised.
MapCompletes(state) == \A c \in ChunkIds : state[c] = "done"

\* parallelize_audio is called: executor.map submits every chunk.
AudioCall ==
    /\ mpc = "idle"
    /\ mpc' = "extract"
    /\ estate' = [c \in Chunks |-> IF c \in ChunkIds THEN "pending" ELSE "none"]
    /\ UNCHANGED << process_args_list, cstate, raw, transcripts, combined, mi,
                    audio_transcription, hvars, pvars, qvars, bvars, rvars, svars >>

\* A free process of the extraction pool takes the next chunk.
ExtractStart(c) ==
    /\ estate[c] = "pending"
    /\ \A k \in 1..(c - 1) : estate[k] # "pending"
    /\ Cardinality({k \in Chunks : estate[k] = "running"}) < ExtractWorkers
    /\ estate' = [estate EXCEPT ![c] = "running"]
    /\ UNCHANGED << process_args_list, cstate, raw, transcripts, combined, mpc, mi,
                    audio_transcription, hvars, pvars, qvars, bvars, rvars, svars >>

\* extract_audio_chunk: subprocess.run(cmd, check=True) returns (ok) or raises
\* CalledProcessError.
ExtractFinish(c, ok) ==
    /\ estate[c] = "running"
    /\ estate' = [estate EXCEPT ![c] = IF ok THEN "done" ELSE "failed"]
    /\ UNCHANGED << process_args_list, cstate, raw, transcripts, combined, mpc, mi,
                    audio_transcription, hvars, pvars, qvars, bvars, rvars, svars >>

\* parallelize_audio returns extracted_chunks, the (path, start) of every
\* chunk in the order of the chunks.
AudioDone ==
    /\ mpc = "extract"
    /\ MapCompletes(estate)
    /\ mpc' = "extracted"
    /\ UNCHANGED << process_args_list, cstate, raw, transcripts, combined, mi,
                    avars, hvars, pvars, qvars, bvars, rvars, svars >>

\* parallelize_audio raises the exception of a chunk once the executor has
\* shut down.
AudioRaise ==
    /\ mpc = "extract"
    /\ \A c \in ChunkIds : estate[c] \in {"done", "failed"}
    /\ \E c \in ChunkIds : estate[c] = "failed"
    /\ mpc' = "raised"
    /\ UNCHANGED << process_args_list, cstate, raw, transcripts, combined, mi,
                    avars, hvars, pvars, qvars, bvars, rvars, svars >>

\* parallelize_transcription is called, on the chunks given or on those that
\* parallelize_audio returned: executor.map submits every chunk.
TranscriptionCall ==
    /\ mpc \in {"idle", "extracted"}
    /\ mpc' = "map"
    /\ cstate' = [c \in Chunks |-> IF c \in ChunkIds THEN "pending" ELSE "none"]
    /\ UNCHANGED << process_args_list, raw, transcripts, combined, mi,
                    avars, hvars, pvars, qvars, bvars, rvars, svars >>

\* A free process of the pool takes the next chunk.
ChunkStart(c) ==
    /\ cstate[c] = "pending"
    /\ \A k \in 1..(c - 1) : cstate[k] # "pending"
    /\ Cardinality({k \in Chunks : cstate[k] = "running"}) < TranscriptionWorkers
    /\ cstate' = [cstate EXCEPT ![c] = "running"]
    /\ UNCHANGED << process_args_list, raw, transcripts, combined, mpc, mi,
                    avars, hvars, pvars, qvars, bvars, rvars, svars >>

\* process_chunk returns: generate_transcript gave r, shifted by the chunk's
\* start.
ChunkFinish(c, r) ==
    /\ cstate[c] = "running"
    /\ cstate' = [cstate EXCEPT ![c] = "done"]
    /\ raw' = [raw EXCEPT ![c] = r]
    /\ transcripts' = [transcripts EXCEPT ![c] = process_chunk(r, process_args_list[c])]
    /\ UNCHANGED << process_args_list, combined, mpc, mi, avars, hvars, pvars, qvars, bvars, rvars, svars >>

\* process_chunk raises.
ChunkFail(c) ==
    /\ cstate[c] = "running"
    /\ cstate' = [cstate EXCEPT ![c] = "failed"]
    /\ UNCHANGED << process_args_list, raw, transcripts, combined, mpc, mi,
                    avars, hvars, pvars, qvars, bvars, rvars, svars >>

\* list(executor.map(...)) has every result, in the order of the chunks, and
\* the executor has shut down: combined_transcript = transcripts[0].
MapDone ==
    /\ mpc = "map"
    /\ MapCompletes(cstate)
    /\ combined' = transcripts[1]
    /\ mi' = 2
    /\ mpc' = "merge"
    /\ UNCHANGED << process_args_list, cstate, raw, transcripts, avars, hvars, pvars, qvars, bvars, rvars, svars >>

\* list(executor.map(...)) raises the exception of a chunk once the executor
\* has shut down.
MapRaise ==
    /\ mpc = "map"
    /\ \A c \in ChunkIds : cstate[c] \in {"done", "failed"}
    /\ \E c \in ChunkIds : cstate[c] = "failed"
    /\ mpc' = "raised"
    /\ UNCHANGED << process_args_list, cstate, raw, transcripts, combined, mi,
                    avars, hvars, pvars, qvars, bvars, rvars, svars >>

\* for transcript in transcripts[1:]: combined_transcript.extend(transcript),
\* and the return after the last one.
MergeNext ==
    /\ mpc = "merge"
    /\ IF mi <= Len(process_args_list)
         THEN /\ combined' = extend(combined, transcripts[mi])
              /\ mi' = mi + 1
              /\ UNCHANGED mpc
         ELSE /\ mpc' = "returned"
              /\ UNCHANGED << combined, mi >>
    /\ UNCHANGED << process_args_list, cstate, raw, transcripts, avars, hvars, pvars, qvars, bvars, rvars, svars >>

\* The caller attaches what parallelize_transcription returned to the
\* manifest.
AttachTranscript ==
    /\ mpc = "returned"
    /\ audio_transcription' = Some(combined)
    /\ mpc' = "attached"
    /\ UNCHANGED << process_args_list, cstate, raw, transcripts, combined, mi,
                    estate, hvars, pvars, qvars, bvars, rvars, svars >>

\* --------------------------------------------------------- _run_preprocess
\* What a request or a manifest can hold as fps: nothing, or a number.
FpsValues == {Nothing} \cup {Some(n) : n \in 0..MaxFps}

_coerce_positive_float(value) ==
    IF value # Nothing /\ value[1] > 0 THEN value ELSE Nothing

\* fps_value: the fps of the request, else the first positive candidate of the
\* manifest.
fps_value ==
    IF _coerce_positive_float(request.fps) # Nothing
      THEN _coerce_positive_float(request.fps)
      ELSE IF _coerce_positive_float(client.processing_params_fps) # Nothing
             THEN _coerce_positive_float(client.processing_params_fps)
             ELSE _coerce_positive_float(client.source_video_fps)

\* if request.skip_preprocess: if client.manifest.video_manifest_path: return
skips_preprocess ==
    /\ request.skip_preprocess
    /\ client.video_manifest_path

\* A request and a client on which _run_preprocess has not been called.
\* video_manifest_path and audio_transcription: whether the manifest has one.
RConstructed(skip, path, generate, transcribed, rfps, pfps, sfps) ==
    /\ request = [skip_preprocess |-> skip, generate_transcripts |-> generate, fps |-> rfps]
    /\ client = [video_manifest_path |-> path, audio_transcription |-> transcribed,
                 processing_params_fps |-> pfps, source_video_fps |-> sfps,
                 preprocess_calls |-> << >>]
    /\ rpc = "idle"

RDefault == RConstructed(FALSE, FALSE, FALSE, FALSE, Nothing, Some(1), Some(1))

RInit ==
    \E skip, path, generate, transcribed \in BOOLEAN :
        \E rfps, pfps, sfps \in FpsValues :
            RConstructed(skip, path, generate, transcribed, rfps, pfps, sfps)

\* _run_preprocess(client, request); ok: preprocess_video returns, else it
\* raises and the exception is re-raised.
RunPreprocess(ok) ==
    /\ rpc = "idle"
    /\ IF skips_preprocess
         THEN /\ rpc' = "returned"
              /\ UNCHANGED client
         ELSE IF fps_value = Nothing
                THEN /\ rpc' = "raised"
                     /\ UNCHANGED client
                ELSE /\ client' = [client EXCEPT !.preprocess_calls =
                                     Append(@, [fps |-> fps_value[1],
                                                generate_transcripts_flag |->
                                                    request.generate_transcripts])]
                     /\ rpc' = IF ok THEN "returned" ELSE "raised"
    /\ UNCHANGED << request, hvars, pvars, tvars, qvars, bvars, svars >>

\* --------------------------------------------------------- parse_transcript
\* The times of the words: every half second of the longest video.
WordTimes == {(k * Second) \div 2 : k \in 0..(2 * MaxDuration)}

\* The word lists of a TranscriptionResult: up to MaxWords words, in the order
\* they were spoken, each with its own text.
WordsOf(n) ==
    IF n = 0 THEN {<< >>}
    ELSE IF n = 1
      THEN {<< [word |-> "a", start |-> x[1], end |-> x[2]] >> :
               x \in {y \in WordTimes \X WordTimes : y[1] <= y[2]}}
      ELSE {<< [word |-> "a", start |-> x[1], end |-> x[2]],
               [word |-> "b", start |-> x[3], end |-> x[4]] >> :
               x \in {y \in WordTimes \X WordTimes \X WordTimes \X WordTimes :
                         y[1] <= y[2] /\ y[1] <= y[3] /\ y[3] <= y[4]}}

TranscriptWords == UNION {WordsOf(n) : n \in 0..MaxWords}

RECURSIVE words_in_range(_, _, _)
\* parse_transcript: [word.word for word in words if word.start >= start_time
\* and word.end <= end_time], which " ".join puts together.
words_in_range(words, from, to) ==
    IF words = << >> THEN << >>
    ELSE (IF Head(words).start >= from /\ Head(words).end <= to
            THEN << Head(words).word >> ELSE << >>)
         \o words_in_range(Tail(words), from, to)

\* No segment sliced yet, from a transcript with the given words.
SConstructed(words) ==
    /\ transcription_object = words
    /\ transcription = [i \in SegmentIds |-> Nothing]

SDefault == SConstructed(<< >>)

\* _preprocess_segment with generate_transcript_flag: segment.transcription =
\* parse_transcript(transcript, start_time, end_time); its ValueError (start
\* after end, or negative) leaves the segment as it was.
SliceSegment(i) ==
    /\ i <= Len(segments)
    /\ transcription[i] = Nothing
    /\ IF segments[i].start_time > segments[i].end_time \/ segments[i].start_time < 0
         THEN UNCHANGED transcription
         ELSE transcription' = [transcription EXCEPT ![i] =
                  Some(words_in_range(transcription_object,
                                      segments[i].start_time, segments[i].end_time))]
    /\ UNCHANGED << transcription_object, hvars, pvars, tvars, rvars, qvars, bvars >>

\* --------------------------------------------------------- the other parts
\* A one-second video with the default parameters, not preprocessed.
PDefault == PConstructed(Second, Params(Second, << 1, 1 >>, FALSE, TRUE))

\* What each specification fixes of the parts it does not exercise.
XConstructed == HConstructed /\ PDefault /\ TConstructed(1) /\ RDefault /\ SDefault

\* ------------------------------------------------------------ specifications
Next ==
    \/ \E j \in Jobs : SubmitCall(j)
    \/ \E j \in Jobs : SubmitPut(j)
    \/ \E j \in Jobs : Cancel(j)
    \/ \E w \in WorkerIds : WorkerGet(w)
    \/ \E w \in WorkerIds : WorkerStart(w)
    \/ \E w \in WorkerIds, o \in Outcomes : WorkerFinish(w, o)
    \/ \E wait \in BOOLEAN : ShutdownCall(wait)
    \/ ShutdownPut
    \/ ShutdownJoin

\* AnalysisQueue.__init__ builds the queue and its token bucket.
Init == QInit /\ BConstructed(MaxCapacity) /\ XConstructed

Spec == Init /\ [][Next]_vars

\* The worker threads are scheduled fairly and every work() call ends.
FairSpec == Spec /\ \A w \in WorkerIds : WF_vars(WorkerStep(w))

BucketNext ==
    \/ \E t \in Threads : \E n \in 0..(capacity + 1) : AcquireCall(t, n)
    \/ \E t \in Threads : \E n \in 0..(capacity + 1) : ReservationEnter(t, n)
    \/ \E t \in Threads : \E o \in Outcomes : ReservationExit(t, o)
    \/ \E t \in Threads : AcquireLoop(t)
    \/ \E t \in Threads : AcquireWake(t)
    \/ Tick

\* A token bucket on its own, with the threads that call acquire on it, from
\* the first call on.
BucketInit ==
    /\ \E c \in 1..MaxCapacity : BIdle(c)
    /\ QConstructed(1, 0)
    /\ XConstructed

BucketSpec == BucketInit /\ [][BucketNext]_vars

\* Time advances and every thread inside acquire is scheduled.
FairBucketSpec ==
    /\ BucketSpec
    /\ WF_vars(Tick)
    /\ \A t \in Threads : WF_vars(AcquireLoop(t) \/ AcquireWake(t))

\* The token bucket from its construction on, its budget followed.
BudgetInit == BInit /\ QConstructed(1, 0) /\ XConstructed

BudgetSpec == BudgetInit /\ [][BucketNext]_vars

HelperNext ==
    \/ \E m \in Manifests : \E l \in Lenses : EstimateTokens(m, l)
    \/ \E r \in Requests : ClampMaxWorkers(r)

\* An AnalysisQueue of any configuration and the calls of its helpers.
HelperInit ==
    /\ \E c \in 1..MaxTokensPerMinute : BConstructed(c)
    /\ QConstructed(1, 0)
    /\ HInit
    /\ PDefault
    /\ TConstructed(1)
    /\ RDefault
    /\ SDefault

HelperSpec == HelperInit /\ [][HelperNext]_vars

ClampNext == \E r \in Requests : ClampMaxWorkers(r)

\* clamp_max_workers on an AnalysisQueue of any accepted configuration.
ClampStart ==
    /\ AcceptedConfigInit
    /\ BConstructed(MaxCapacity)
    /\ QConstructed(1, 0)
    /\ PDefault
    /\ TConstructed(1)
    /\ RDefault
    /\ SDefault

ClampSpec == ClampStart /\ [][ClampNext]_vars

PlannerNext == GenerateSegments

\* The planner on its own: one _generate_segments run on a fresh manifest.
PlannerStart ==
    /\ PlannerInit
    /\ BConstructed(MaxCapacity)
    /\ QConstructed(1, 0)
    /\ HConstructed
    /\ TConstructed(1)
    /\ RDefault
    /\ SDefault

PlannerSpec == PlannerStart /\ [][PlannerNext]_vars

PreprocessNext ==
    \/ \E L \in Lengths(MaxDuration) : \E F \in Fps \cup {<< 0, 1 >>} :
       \E trim \in BOOLEAN : \E partial \in BOOLEAN : \E overwrite \in BOOLEAN :
          PreprocessCall(L, F, trim, partial, overwrite)
    \/ \E ok \in BOOLEAN : ExtractAudio(ok)
    \/ SubmitSegment
    \/ \E i \in SegmentIds : TaskStart(i)
    \/ \E i \in SegmentIds : SegmentWrite(i)
    \/ \E i \in SegmentIds : \E ok \in BOOLEAN : TaskFinish(i, ok)
    \/ \E i \in SegmentIds : Collect(i)
    \/ PreprocessReturn

\* A VideoClient and the calls of preprocess_video on it.
PreprocessStart ==
    /\ PreprocessInit
    /\ BConstructed(MaxCapacity)
    /\ QConstructed(1, 0)
    /\ HConstructed
    /\ TConstructed(1)
    /\ RDefault
    /\ SDefault

PreprocessSpec == PreprocessStart /\ [][PreprocessNext]_vars

TranscribeNext ==
    \/ AudioCall
    \/ \E c \in Chunks : ExtractStart(c)
    \/ \E c \in Chunks : \E ok \in BOOLEAN : ExtractFinish(c, ok)
    \/ AudioDone
    \/ AudioRaise
    \/ AttachTranscript
    \/ TranscriptionCall
    \/ \E c \in Chunks : ChunkStart(c)
    \/ \E c \in Chunks : \E r \in RawTranscripts : ChunkFinish(c, r)
    \/ \E c \in Chunks : ChunkFail(c)
    \/ MapDone
    \/ MapRaise
    \/ MergeNext

\* parallelize_transcription on the chunks of one audio file.
TranscribeStart ==
    /\ TInit
    /\ BConstructed(MaxCapacity)
    /\ QConstructed(1, 0)
    /\ HConstructed
    /\ PDefault
    /\ RDefault
    /\ SDefault

TranscribeSpec == TranscribeStart /\ [][TranscribeNext]_vars

RunPreprocessNext == \E ok \in BOOLEAN : RunPreprocess(ok)

\* One _run_preprocess call on a request and a client.
RunPreprocessStart ==
    /\ RInit
    /\ BConstructed(MaxCapacity)
    /\ QConstructed(1, 0)
    /\ HConstructed
    /\ PDefault
    /\ TConstructed(1)
    /\ SDefault

RunPreprocessSpec == RunPreprocessStart /\ [][RunPreprocessNext]_vars

SliceNext ==
    \/ GenerateSegments
    \/ \E i \in SegmentIds : SliceSegment(i)

\* A planned manifest whose segments are sliced out of a transcript.
SliceStart ==
    /\ \E d \in Durations(MaxDuration) : \E L \in Lengths(MaxDuration) :
       \E trim \in BOOLEAN : \E partial \in BOOLEAN :
          /\ L <= d
          /\ PConstructed(d, Params(L, << 1, 1 >>, trim, partial))
    /\ \E words \in TranscriptWords : SConstructed(words)
    /\ BConstructed(MaxCapacity)
    /\ QConstructed(1, 0)
    /\ HConstructed
    /\ TConstructed(1)
    /\ RDefault

SliceSpec == SliceStart /\ [][SliceNext]_vars

\* ------------------------------------------------- AnalysisQueue: properties
InSeq(x, s) == \E i \in 1..Len(s) : s[i] = x
Accepted(j) == spc[j] = "accepted"
Held(j) == \E w \in WorkerIds : wjob[w] = j
Dequeued(j) == Accepted(j) /\ ~InSeq(j, queue)
Started(j) == workCalls[j] >= 1
Running == {w \in WorkerIds : wpc[w] = "run"}
AllWorkersBusy == \A w \in Workers : wpc[w] = "run"
SubmitReturns(j) == spc[j] = "put" /\ spc'[j] # "put"

\* C1: at every moment at most max_concurrent_jobs jobs have their work
\* executing; with max_concurrent_jobs = 1 a job's work starts only after the
\* work of every earlier-submitted job has finished, so the start order and the
\* finish order are the submission order.
C1_ConcurrencyLimit ==
    /\ Cardinality(Running) <= max_concurrent_jobs
    /\ max_concurrent_jobs = 1 =>
         \A j \in Jobs : \A k \in before[j] :
            /\ Started(j) => workDone[k]
            /\ workDone[j] => workDone[k]

\* One worker, three jobs submitted: two have finished and the third is running.
C1_Witness ==
    /\ max_concurrent_jobs = 1
    /\ wpc[1] = "run"
    /\ Cardinality(before[wjob[1]]) = 2
    /\ \A k \in before[wjob[1]] : workDone[k]

C2_Scenario == max_concurrent_jobs = 1 /\ max_pending_jobs = 1

\* C2: with one worker and one pending slot, while the worker runs a job a
\* submit that finds the slot free is accepted and a submit that finds it taken
\* raises QueueFullError without blocking and without enqueuing; a rejected
\* job's work is never executed, and a completed job holds its own result.
C2_QueueFullWhenPendingReached ==
    /\ [](C2_Scenario =>
            \A j \in Jobs :
               /\ spc[j] = "put" => ENABLED SubmitPut(j)
               /\ spc[j] = "full" =>
                    workCalls[j] = 0 /\ ~InSeq(j, queue) /\ ~Held(j)
               /\ fut[j] = "completed" => result[j] = WorkValue(j))
    /\ [][\A j \in Jobs :
            (C2_Scenario /\ wpc[1] = "run" /\ SubmitReturns(j)) =>
               IF queue = << >>
                 THEN spc'[j] = "accepted" /\ queue' = << j >>
                 ELSE spc'[j] = "full" /\ queue' = queue]_vars

\* The test's run: the third submit was rejected, the first two completed.
C2_Witness ==
    /\ C2_Scenario
    /\ spc[1] = "accepted" /\ spc[2] = "accepted" /\ spc[3] = "full"
    /\ pred[3] = {1, 2}
    /\ fut[1] = "completed" /\ fut[2] = "completed"
    /\ workCalls[3] = 0

\* C3: with max_pending_jobs = 0 a submit made while every worker is running a
\* job fails with the queue-full error and enqueues nothing.
C3_ZeroSlack ==
    [][\A j \in Jobs :
         (max_pending_jobs = 0 /\ AllWorkersBusy /\ SubmitReturns(j)) =>
            (spc'[j] = "full" /\ queue' = queue)]_vars

\* C4: while the queue is not shut down, every job whose submit returned a
\* handle eventually has the handle resolved (a cancelled handle counts as
\* resolved with an error).
C4_EventuallyResolved ==
    \A j \in Jobs :
       (spc[j] = "accepted") ~> (fut[j] \in {"completed", "failed", "cancelled"} \/ shutdown)

\* C5: an accepted job's work is invoked at most once, its handle is resolved
\* at most once and only after its work was invoked, and the handle never
\* becomes cancelled.
C5_NoCancelledState ==
    \A j \in Jobs :
       /\ workCalls[j] <= 1
       /\ resolves[j] <= 1
       /\ fut[j] \in {"completed", "failed"} => (workCalls[j] = 1 /\ resolves[j] = 1)
       /\ fut[j] # "cancelled"

\* C6: a submit called once shutdown has set the queue closed raises, creates
\* no handle and enqueues nothing, then and ever after.
C6_SubmitAfterShutdownFails ==
    /\ [][\A j \in Jobs :
            (shutdown /\ spc[j] = "new" /\ spc'[j] # "new") =>
               (spc'[j] = "shutdown" /\ queue' = queue /\ fut'[j] = "none")]_vars
    /\ [](\A j \in Jobs :
            spc[j] = "shutdown" =>
               (fut[j] = "none" /\ ~InSeq(j, queue) /\ ~Held(j) /\ workCalls[j] = 0))

\* A submit was refused because of shutdown after an earlier one was accepted.
C6_Witness == \E j \in Jobs : spc[j] = "shutdown" /\ pred[j] # {}

\* C7: shutdown enqueues one sentinel per worker and never more, a worker
\* consumes at most one sentinel and exits on it, and when shutdown(wait=True)
\* has returned every worker has consumed its sentinel and exited.
C7_OneSentinelPerWorker ==
    /\ sentinelsPut <= Cardinality(Workers)
    /\ \A w \in Workers : wsent[w] <= 1 /\ (wpc[w] = "exited" <=> wsent[w] = 1)
    /\ sdJoined => \A w \in Workers : wpc[w] = "exited" /\ wsent[w] = 1

\* C8: if submit of job a returned before submit of job b was called, then a
\* worker dequeues b only after a worker has dequeued a.
C8_FifoAdmission ==
    \A a, b \in Jobs :
       (a \in pred[b] /\ Dequeued(b)) => Dequeued(a)

\* Job 1 was submitted and dequeued before job 2, and job 2 finished first.
C8_Witness ==
    /\ 1 \in pred[2]
    /\ Dequeued(1) /\ ~workDone[1]
    /\ Dequeued(2) /\ workDone[2]

\* --------------------------------------------------- TokenBucket: properties
InAcquire(t) == tpc[t] \in {"loop", "wait"}

\* C9: a call acquire(n) with 0 < n <= capacity eventually returns, whatever
\* the balance and whatever the other threads acquire meanwhile.
C9_EventualAdmission ==
    \A t \in Threads :
       (InAcquire(t) /\ 0 < treq[t] /\ treq[t] <= capacity) ~> (tpc[t] = "returned")

\* C10: a call acquire(n) with n > capacity never returns and debits nothing;
\* the balance never exceeds the capacity.
C10_OverCapacityNeverAdmitted ==
    /\ tokens <= Scaled(capacity)
    /\ \A t \in Threads :
          treq[t] > capacity => (tpc[t] # "returned" /\ debited[t] = 0)

\* Another thread emptied the bucket and it has refilled to the brim since; a
\* thread asking for capacity + 1 has seen it full and waits again.
C10_Witness ==
    \E t, u \in Threads :
       /\ treq[t] = capacity + 1
       /\ tpc[t] = "wait"
       /\ tokens = Scaled(capacity)
       /\ sinceRefill = 0
       /\ timer[t] = SleepTicks(Scaled(1))
       /\ debited[u] = capacity

\* C11: leaving a consume_tokens scope, whether its body completed or raised,
\* leaves the token balance as it was (the tokens debited on entry are not
\* given back) and lets the body's exception through.
C11_NoRefundOnExit ==
    [][\A t \in Threads : \A o \in Outcomes :
         ReservationExit(t, o) =>
            /\ tokens' = tokens
            /\ debited'[t] = treq[t]
            /\ raised'[t] = (o # "ret")]_vars

\* A thread has left a scope that took the whole bucket, with an exception, and
\* the bucket is still empty.
C11_Witness ==
    \E t \in Threads :
        /\ tpc[t] = "idle"
        /\ scope[t] = "out"
        /\ raised[t]
        /\ debited[t] = capacity
        /\ tokens = 0

\* C12: estimate_tokens is min(capacity, base + segments * per-segment + lens
\* term), where the lens term is min(floor(len(lens) / chars-per-token), bonus)
\* and 0 without a lens; so it never exceeds the capacity, a lens never lowers
\* it, and a lens adds at most the bonus.
C12_EstimateTokens ==
    call.op = "estimate_tokens" =>
        LET m == call.manifest
            l == call.lens
            lensTerm == IF l = Nothing THEN 0
                        ELSE Min(Len(l[1]) \div lens_chars_per_token, max_lens_token_bonus)
            withoutLens == estimate_tokens(m, Nothing)
        IN  /\ call.ret = Min(capacity, base_tokens_per_request
                                + segment_count(m) * tokens_per_segment + lensTerm)
            /\ call.ret <= capacity
            /\ call.ret >= withoutLens
            /\ call.ret - withoutLens <= max_lens_token_bonus

\* An estimate below the capacity whose lens is worth more than the bonus and
\* adds exactly the bonus.
C12_Witness ==
    /\ call.op = "estimate_tokens"
    /\ call.lens # Nothing
    /\ Len(call.manifest.segments) > 0
    /\ max_lens_token_bonus > 0
    /\ Len(call.lens[1]) \div lens_chars_per_token > max_lens_token_bonus
    /\ call.ret < capacity
    /\ call.ret = estimate_tokens(call.manifest, Nothing) + max_lens_token_bonus

\* C13: clamp_max_workers returns default_preprocess_workers for None and for
\* a request <= 0, and min(requested, max_preprocess_workers) otherwise.
C13_ClampMaxWorkers ==
    call.op = "clamp_max_workers" =>
        LET r == call.requested
        IN  /\ r = Nothing => call.ret = default_preprocess_workers
            /\ (r # Nothing /\ r[1] <= 0) => call.ret = default_preprocess_workers
            /\ (r # Nothing /\ r[1] > 0) =>
                 /\ call.ret = Min(r[1], max_preprocess_workers)
                 /\ r[1] > max_preprocess_workers => call.ret = max_preprocess_workers
                 /\ r[1] <= max_preprocess_workers => call.ret = r[1]

\* A request above the configured maximum came back as the maximum.
C13_Witness ==
    /\ call.op = "clamp_max_workers"
    /\ call.requested # Nothing
    /\ call.requested[1] > max_preprocess_workers
    /\ max_preprocess_workers # default_preprocess_workers
    /\ call.ret = max_preprocess_workers

\* ----------------------------------------------------- planner: properties
\* The effective duration of the manifest's video under its parameters.
Eff ==
    IF processing_params.trim_to_nearest_second
      THEN (duration \div Second) * Second
      ELSE duration
Window(i) == << segments[i].start_time, segments[i].end_time >>

\* C14: after one planning run with 0 < L <= D the segments start at 0, each
\* ends after it starts, each starts where the one before ends (so they are
\* strictly increasing and do not overlap), and they end at the effective
\* duration, or less than one segment length before it when partial segments
\* are not allowed.
C14_ContiguousCover ==
    runs = 1 =>
        LET n == Len(segments)
            L == processing_params.segment_length
        IN  /\ n > 0
            /\ segments[1].start_time = 0
            /\ \A i \in 1..n : segments[i].start_time < segments[i].end_time
            /\ \A i \in 1..(n - 1) : segments[i + 1].start_time = segments[i].end_time
            /\ processing_params.allow_partial_segments => segments[n].end_time = Eff
            /\ ~processing_params.allow_partial_segments =>
                 /\ segments[n].end_time <= Eff
                 /\ Eff - segments[n].end_time < L
                 /\ \A i \in 1..n : segments[i].end_time - segments[i].start_time = L

\* A 24.5 s video trimmed to 24 s and planned in 10 s segments without
\* partial segments: two segments, the last 4 s left out.
C14_Witness ==
    /\ runs = 1
    /\ duration = 24 * Second + Second \div 2
    /\ processing_params.trim_to_nearest_second
    /\ ~processing_params.allow_partial_segments
    /\ processing_params.segment_length = 10 * Second
    /\ Len(segments) = 2
    /\ segments[2].end_time = 20 * Second

\* C15: every planned segment of duration d has exactly ceil(d * F) sample
\* times, each of them at or after the segment's start and before its end, so
\* that the end of a segment is no sample time and adjacent segments share
\* none.
C15_SamplesInHalfOpenWindow ==
    runs = 1 =>
        /\ \A i \in 1..Len(segments) :
             LET seg == segments[i]
                 times == seg.segment_frame_time_intervals
                 F == processing_params.fps
             IN  /\ Len(times) = CeilDiv((seg.end_time - seg.start_time) * F[1],
                                         Second * F[2])
                 /\ \A k \in 1..Len(times) :
                      seg.start_time <= times[k] /\ times[k] < seg.end_time
        /\ \A i \in 1..(Len(segments) - 1) :
             \A k \in 1..Len(segments[i].segment_frame_time_intervals) :
             \A m \in 1..Len(segments[i + 1].segment_frame_time_intervals) :
                segments[i].segment_frame_time_intervals[k]
                    # segments[i + 1].segment_frame_time_intervals[m]

\* C16: the planner makes ceil(effectiveDuration / L) segments when partial
\* segments are allowed and floor(effectiveDuration / L) otherwise, where
\* effectiveDuration is floor(D) when trimming and D otherwise; segment i (from
\* 0) spans i*L to min((i+1)*L, effectiveDuration).  A 25 s video in 10 s
\* segments gives 0-10, 10-20, 20-25 with partial segments and two 10 s
\* segments without.
C16_SegmentCountAndWindows ==
    runs = 1 =>
        LET L == processing_params.segment_length
            partial == processing_params.allow_partial_segments
            n == IF partial THEN (Eff + L - 1) \div L ELSE Eff \div L
        IN  /\ Len(segments) = n
            /\ segment_metadata.num_segments = n
            /\ segment_metadata.effective_duration = Eff
            /\ \A i \in 1..Len(segments) :
                 Window(i) = << (i - 1) * L, Min(i * L, Eff) >>
            /\ (duration = 25 * Second /\ L = 10 * Second /\ partial) =>
                 /\ Len(segments) = 3
                 /\ Window(1) = << 0, 10 * Second >>
                 /\ Window(2) = << 10 * Second, 20 * Second >>
                 /\ Window(3) = << 20 * Second, 25 * Second >>
            /\ (duration = 25 * Second /\ L = 10 * Second /\ ~partial) =>
                 /\ Len(segments) = 2
                 /\ \A i \in 1..2 : segments[i].segment_duration = 10 * Second

\* The 25 s video planned in 10 s segments with partial segments allowed.
C16_Witness ==
    /\ runs = 1
    /\ duration = 25 * Second
    /\ processing_params.segment_length = 10 * Second
    /\ processing_params.allow_partial_segments
    /\ Len(segments) = 3
    /\ Window(3) = << 20 * Second, 25 * Second >>

\* ------------------------------------------- preprocess_video: properties
WasProcessed(i) == i <= Len(atCall) /\ atCall[i].processed
AllProcessedAtCall == Len(atCall) > 0 /\ \A i \in 1..Len(atCall) : atCall[i].processed

\* C17: a segment whose processing failed is recorded as processed = false and
\* the call does not raise; every segment that was not processed yet is worked
\* on, and when the call returns each of them carries its own result and the
\* segments that were skipped carry the flag they had, so the final flags
\* depend on the segments' outcomes only, not on the order they completed in.
C17_FailureIsPerSegment ==
    /\ ppc = "raised" => \A i \in SegmentIds : task[i] = "none"
    /\ ppc = "returned" =>
         \A i \in 1..Len(segments) :
            /\ ~WasProcessed(i) => task[i] = "collected"
            /\ task[i] = "collected" => segments[i].processed = res[i]
            /\ task[i] = "none" => segments[i].processed

\* A call has returned with two segments worked on: the first failed, the
\* second succeeded.
C17_Witness ==
    /\ ppc = "returned"
    /\ Len(segments) >= 2
    /\ task[1] = "collected" /\ task[2] = "collected"
    /\ ~res[1] /\ res[2]
    /\ ~segments[1].processed /\ segments[2].processed

\* C18: a preprocess_video call on a manifest whose segments are all processed
\* dispatches no extraction work and leaves the segment list as it was, with
\* segment_metadata.num_segments the length of that list.
C18_RerunIsIdempotent ==
    (runs >= 2 /\ AllProcessedAtCall) =>
        /\ \A i \in SegmentIds : task[i] = "none"
        /\ segments = atCall
        /\ segment_metadata.num_segments = Len(segments)

\* -------------------------------------------- chunked transcription: properties
RECURSIVE ShiftedWords(_)
ShiftedWords(c) ==
    IF c = 0 THEN << >>
    ELSE ShiftedWords(c - 1) \o
         [i \in 1..Len(raw[c].words) |->
            [word |-> raw[c].words[i].word,
             start |-> raw[c].words[i].start + process_args_list[c],
             end |-> raw[c].words[i].end + process_args_list[c]]]

RECURSIVE ShiftedSegments(_)
ShiftedSegments(c) ==
    IF c = 0 THEN << >>
    ELSE ShiftedSegments(c - 1) \o
         [i \in 1..Len(raw[c].segments) |->
            [text |-> raw[c].segments[i].text,
             start |-> raw[c].segments[i].start + process_args_list[c],
             end |-> raw[c].segments[i].end + process_args_list[c]]]

RECURSIVE JoinedText(_)
JoinedText(c) == IF c = 0 THEN << >> ELSE JoinedText(c - 1) \o raw[c].text

\* C19: the combined transcript is the chunk transcripts put together in the
\* order of the chunks, every word and speech segment of a chunk moved forward
\* by the start of its chunk, in whatever order the chunks were transcribed.
C19_MergedInChunkOrder ==
    mpc = "returned" =>
        /\ combined.words = ShiftedWords(Len(process_args_list))
        /\ combined.segments = ShiftedSegments(Len(process_args_list))
        /\ combined.text = JoinedText(Len(process_args_list))

\* Three chunks with a word each, the second not at the start of its chunk:
\* the combined words are in chunk order with non-decreasing start times.
C19_Witness ==
    /\ mpc = "returned"
    /\ Len(process_args_list) = 3
    /\ Len(combined.words) = 3
    /\ combined.text = << "a", "b", "a" >>
    /\ raw[2].words[1].start = 1
    /\ combined.words[2].start = ChunkStep + 1
    /\ combined.words[3].start = 2 * ChunkStep

\* The ends of the chunks that have a duration, on the timeline of the file.
ChunkEnds == {process_args_list[c] + raw[c].duration[1] :
                 c \in {k \in ChunkIds : raw[k].duration # Nothing}}
MaxOf(S) == CHOOSE m \in S : \A x \in S : x <= m

RECURSIVE MergedIn(_, _)
MergedIn(order, k) ==
    IF k = 1 THEN transcripts[order[1]]
    ELSE extend(MergedIn(order, k - 1), transcripts[order[k]])

\* C20: the duration of the combined transcript is the largest of the chunks'
\* start + duration (no duration when no chunk has one), not their sum, and it
\* is the same for every order the chunk transcripts are merged in.
C20_DurationIsMaxEnd ==
    mpc = "returned" =>
        /\ combined.duration = IF ChunkEnds = {} THEN Nothing ELSE Some(MaxOf(ChunkEnds))
        /\ \A order \in Permutations(ChunkIds) :
              MergedIn(order, Len(process_args_list)).duration = combined.duration

\* Three chunks, each with a duration of 1: the combined duration is the end
\* of the last chunk, not 3 and not the sum of the ends.
C20_Witness ==
    /\ mpc = "returned"
    /\ Len(process_args_list) = 3
    /\ \A c \in ChunkIds : raw[c].duration = Some(1)
    /\ combined.duration = Some(2 * ChunkStep + 1)

\* --------------------------------------------- chunked audio: failure
ChunkFailed == \E c \in ChunkIds : estate[c] = "failed" \/ cstate[c] = "failed"

C22_SkipUnlessTranscriptsMissing ==
    (rpc # "idle" /\ request.skip_preprocess /\ client.video_manifest_path
        /\ request.generate_transcripts /\ fps_value # Nothing) =>
        IF client.audio_transcription
          THEN client.preprocess_calls = << >>
          ELSE /\ Len(client.preprocess_calls) = 1
               /\ client.preprocess_calls[1].generate_transcripts_flag

\* ------------------------------------------------ TokenBucket: the balance
\* C23: whatever the interleaving of the acquire calls and the refills, the
\* balance is within [0, capacity] before and after every step; a step lowers
\* the balance only when exactly one acquire(n) returns in it, and the step in
\* which an acquire(n), n > 0, returns takes exactly n from the refilled
\* balance, for a call that had debited nothing yet.
C23_BalanceInRangeDebitOnce ==
    [][/\ 0 <= tokens /\ tokens <= Scaled(capacity)
       /\ 0 <= tokens' /\ tokens' <= Scaled(capacity')
       /\ \A t \in Threads :
             (tpc[t] = "loop" /\ tpc'[t] = "returned") =>
                /\ tokens' = Min(Scaled(capacity), tokens + sinceRefill * capacity)
                                - Scaled(treq[t])
                /\ debited[t] = 0 /\ debited'[t] = treq[t]
       /\ tokens' < tokens =>
             Cardinality({t \in Threads : tpc[t] = "loop" /\ tpc'[t] = "returned"}) = 1]_vars

\* Two concurrent calls acquire(1) on a bucket of capacity 2 have both
\* returned, each with its one token, and the bucket is empty.
C23_Witness ==
    /\ capacity = 2
    /\ \A t \in Threads : tpc[t] = "returned" /\ treq[t] = 1 /\ debited[t] = 1
    /\ tokens = 0

\* ------------------------------------------- AnalysisQueue: worker lifetime
\* C24: a worker leaves its loop only by dequeuing a sentinel (whatever its
\* job's work did and whatever the state of the job's handle), so until
\* shutdown is called there are max_concurrent_jobs live workers.
C24_WorkersLeaveOnSentinelOnly ==
    /\ \A w \in Workers : NotAlive(w) => (wpc[w] = "exited" /\ wsent[w] = 1)
    /\ ~shutdown => Cardinality({w \in Workers : ~NotAlive(w)}) = max_concurrent_jobs

\* ------------------------------------------ preprocess_video: who writes
\* C25: during segment preprocessing only the thread that called
\* preprocess_video writes the segment records of the manifest: a worker
\* running _preprocess_segment writes none of them.
C25_OnlyCallerWrites ==
    \A i \in SegmentIds : writers[i] \subseteq {"caller"}

\* ---------------------------------------------- AnalysisQueue: shutdown
Resolved(j) == fut[j] \in {"completed", "failed", "cancelled"}

\* C26: at the moment a shutdown(wait=True) call returns, every handle that a
\* submit has returned is resolved: no accepted job is still in the queue or
\* unfinished.
C26_NoJobStrandedByShutdown ==
    [][(~sdJoined /\ sdJoined') =>
          \A j \in Jobs : spc'[j] = "accepted" => Resolved(j)']_vars

\* ------------------------------------------------ AnalysisQueue: backlog
Unresolved == {j \in Jobs : spc[j] = "accepted" /\ ~Resolved(j)}

\* C28: with max_pending_jobs > 0 the queue never holds more than
\* max_pending_jobs items, and never more than max_concurrent_jobs +
\* max_pending_jobs accepted jobs have an unresolved handle.
C28_BoundedBacklog ==
    max_pending_jobs > 0 =>
        /\ Len(queue) <= max_pending_jobs
        /\ Cardinality(Unresolved) <= max_concurrent_jobs + max_pending_jobs

\* One worker and two pending slots: the worker runs a job, the queue holds
\* two more, and all three handles are unresolved.
C28_Witness ==
    /\ max_concurrent_jobs = 1 /\ max_pending_jobs = 2
    /\ wpc[1] = "run"
    /\ Len(queue) = 2
    /\ Cardinality(Unresolved) = 3

\* ------------------------------------------------ TokenBucket: the budget
\* C27: the tokens granted by all the acquire calls up to t ticks after the
\* construction are at most capacity + t * capacity / refill period, for t up
\* to MaxElapsed and any interleaving of the acquiring threads.
C27_GrantedWithinBudget ==
    elapsed <= MaxElapsed =>
        granted * RefillTicks <= capacity * RefillTicks + elapsed * capacity

\* The budget is used up to the last token: the whole bucket at once, then
\* every token as it is refilled.
C27_Witness ==
    /\ elapsed = MaxElapsed
    /\ capacity = MaxCapacity
    /\ granted * RefillTicks = capacity * RefillTicks + elapsed * capacity

\* ------------------------------------------- clamp_max_workers: its range
\* C29: for every configuration the queue accepts and every request,
\* clamp_max_workers returns a count between 1 and max_preprocess_workers.
C29_ClampWithinLimits ==
    call.op = "clamp_max_workers" =>
        (1 <= call.ret /\ call.ret <= max_preprocess_workers)

\* ---------------------------------------------- parse_transcript: slicing
AllSliced == Len(segments) > 0 /\ \A i \in 1..Len(segments) : transcription[i] # Nothing
SegmentsWith(word) ==
    {i \in 1..Len(segments) :
        \E k \in 1..Len(transcription[i][1]) : transcription[i][1][k] = word}

\* C30: once every planned segment is sliced, every word of the transcript
\* with 0 <= start <= end <= effective duration is in the transcription of
\* exactly one segment.
C30_SlicingPartitionsWords ==
    AllSliced =>
        \A k \in 1..Len(transcription_object) :
           LET w == transcription_object[k]
           IN  (0 <= w.start /\ w.start <= w.end /\ w.end <= Eff) =>
                   Cardinality(SegmentsWith(w.word)) = 1

====
